---- MODULE Spec2Model ----
(***************************************************************************)
(* The LiveCode backend (src/index.js): an Express application holding two *)
(* in-memory arrays, data.chats and data.messages, seeded from             *)
(* default.json and mutated by CRUD route handlers.  Every handler runs to *)
(* completion on the single JavaScript thread, so each one is one action,  *)
(* taken between the arrival of a request and the sending of its response. *)
(***************************************************************************)
EXTENDS Integers, Sequences, FiniteSets, TLC

\* ------------------------------------------------------------------ bounds
\* Creation requests are served only while the collection has room and the
\* id to assign stays within MaxId; this keeps the state space finite.
MaxChats == 2
MaxMsgs == 2
MaxId == 3

VARIABLES
    chats,      \* data.chats: sequence of [id, index, name, shared]
    messages,   \* data.messages: sequence of [id, chat_id, type, author, content]
    pc,         \* where the server is: "idle", "handling" a request, "responded"
    req,        \* the request being handled: [route, id, mid, body]
    res,        \* the response to it: [status, body]
    retired     \* history: ids of the records deleted since the last reset,
                \* per collection

vars == <<chats, messages, pc, req, res, retired>>

\* ----------------------------------------------------------- JS primitives

\* The result of parseInt on text that does not start with a digit.  Route
\* parameters here carry no sign, so no parsed number equals it, and since
\* every stored id is positive, (id === NaN) is false as in JavaScript.
NaN == 0 - 1

Digits == <<"0", "1", "2", "3", "4", "5", "6", "7", "8", "9">>

IsDigit(c) == \E d \in 1..Len(Digits) : Digits[d] = c

DigitValue(c) == (CHOOSE d \in 1..Len(Digits) : Digits[d] = c) - 1

\* Number of leading characters of s that are digits.
RECURSIVE DigitPrefix(_)
DigitPrefix(s) ==
    IF Len(s) = 0 \/ ~IsDigit(Head(s)) THEN 0 ELSE 1 + DigitPrefix(Tail(s))

RECURSIVE Decimal(_)
Decimal(s) ==
    IF Len(s) = 0 THEN 0
    ELSE 10 * Decimal(SubSeq(s, 1, Len(s) - 1)) + DigitValue(s[Len(s)])

\* parseInt(req.params.x): the longest prefix of decimal digits, read as a
\* number; NaN when there is none.  s is a sequence of characters.
parseInt(s) ==
    IF DigitPrefix(s) = 0 THEN NaN ELSE Decimal(SubSeq(s, 1, DigitPrefix(s)))

\* The falsy values among those request bodies carry here: 0 for the
\* number of index, false for the boolean of shared, the empty string for
\* the other fields, which are strings.
Falsy(f, v) ==
    CASE f = "index"  -> v = 0
      [] f = "shared" -> v = FALSE
      [] OTHER        -> v = ""

\* (field) as a condition: present and not falsy.
PresentTruthy(body, f) == f \in DOMAIN body /\ ~Falsy(f, body[f])

\* (field !== undefined) for a field destructured from req.body.
Present(body, f) == f \in DOMAIN body

\* (field === undefined)
NotUndefinedOnly(body, f) == f \notin DOMAIN body

\* (!field) for a field destructured from req.body.
Not(body, f) == f \notin DOMAIN body \/ Falsy(f, body[f])

\* array.findIndex(test): 0-based index of the first match, -1 when none.
findIndex(array, test(_)) ==
    IF \E i \in 1..Len(array) : test(array[i])
    THEN (CHOOSE i \in 1..Len(array) :
             test(array[i]) /\ \A j \in 1..(i - 1) : ~test(array[j])) - 1
    ELSE 0 - 1

\* array.some(test)
some(array, test(_)) == \E i \in 1..Len(array) : test(array[i])

\* array.filter(test)
filter(array, test(_)) == SelectSeq(array, test)

\* array.splice(index, 1): the array without its element at 0-based index.
splice(array, index) ==
    SubSeq(array, 1, index) \o SubSeq(array, index + 2, Len(array))

\* array.push(item)
push(array, item) == Append(array, item)

SetMax(S) == CHOOSE x \in S : \A y \in S : y <= x

\* --------------------------------------------------------------- the store

validTypes == <<"user", "thinking", "answer">>

includes(array, v) == \E i \in 1..Len(array) : array[i] = v

\* Variants of getNextId that a slip in the code would give.
getNextIdLowestFree(array) ==
    CHOOSE n \in 1..(Len(array) + 1) :
        /\ \A i \in 1..Len(array) : array[i].id # n
        /\ \A k \in 1..(n - 1) : \E i \in 1..Len(array) : array[i].id = k

getNextIdCount(array) == Len(array) + 1

getNextId(array) ==
    IF Len(array) = 0 THEN 1
    ELSE SetMax({array[i].id : i \in 1..Len(array)}) + 1

\* The content of default.json.
defaultData ==
    [chats    |-> << [id |-> 1, index |-> 0, name |-> "A", shared |-> FALSE] >>,
     messages |-> << [id |-> 1, chat_id |-> 1, type |-> "user",
                      author |-> "ann", content |-> "hi"] >>]

\* What reading default.json can give: the file may be missing
\* (readFileSync throws), hold malformed JSON (JSON.parse throws), or load.
SeedFiles == {"ok", "missing", "malformed"}

\* fs.readFileSync(default.json): throws when the file is missing.
readFileSync(file) ==
    IF file = "missing" THEN [threw |-> TRUE, text |-> ""]
    ELSE [threw |-> FALSE, text |-> file]

\* JSON.parse(text): throws on malformed text, else the document.
JSONparse(text) ==
    IF text = "ok" THEN [threw |-> FALSE, value |-> defaultData]
    ELSE [threw |-> TRUE, value |-> [chats |-> <<>>, messages |-> <<>>]]

\* loadDefaultData() that falls back to the empty store when the load fails.
loadDefaultDataOrEmpty(data, file) ==
    IF file = "ok" THEN defaultData ELSE [chats |-> <<>>, messages |-> <<>>]

\* loadDefaultData(): the new value of data, given the old one and the file.
\* The catch block only logs, so data keeps its value when anything throws.
loadDefaultData(data, file) ==
    IF readFileSync(file).threw THEN data
    ELSE IF JSONparse(readFileSync(file).text).threw THEN data
    ELSE JSONparse(readFileSync(file).text).value

Data == [chats |-> chats, messages |-> messages]

Error(text) == [error |-> text]

\* res.status(204).send(): a response without a body.
NoContent == [empty |-> TRUE]

NoRequest == [route |-> "none", id |-> <<>>, mid |-> <<>>, body |-> <<>>]

NoResponse == [status |-> 0, body |-> NoContent]

NoRetired == [chats |-> {}, messages |-> {}]

\* res.status(status).json(body) as the handler's last statement; the
\* request stays at hand until the response is sent.
Respond(status, body) ==
    /\ res' = [status |-> status, body |-> body]
    /\ pc' = "responded"
    /\ req' = req

\* The handler registered for route is run on the request that arrived.
Handling(route) == pc = "handling" /\ req.route = route

\* ------------------------------------------------------------------ inputs

\* Route parameters as typed in the URL.
IdParams == {<<"1">>, <<"2", "x">>, <<"3">>, <<"x">>}

\* Optional fields: the empty sequence for an absent field, <<v>> for v.
Opt(S) == {<<>>} \cup {<<v>> : v \in S}

MkBody(fields, vals) ==
    [f \in {g \in fields : vals[g] # <<>>} |-> vals[f][1]]

ChatBodies ==
    {MkBody({"name", "index", "shared"},
            [name |-> n, index |-> i, shared |-> s]) :
        n \in Opt({"A", ""}), i \in Opt({0, 1}), s \in Opt({TRUE, FALSE})}

\* Bodies for creating a message: every field absent, falsy or given.
PostMessageBodies ==
    {MkBody({"type", "author", "content"},
            [type |-> t, author |-> a, content |-> c]) :
        t \in Opt({"answer", "bogus"}),
        a \in Opt({"ann", ""}), c \in Opt({"hi", ""})}
    \cup {[type |-> "", author |-> "ann", content |-> "hi"]}

\* Bodies for updating a message: every subset of the fields, with values
\* no stored message starts with.
PutMessageBodies ==
    {MkBody({"type", "author", "content"},
            [type |-> t, author |-> a, content |-> c]) :
        t \in Opt({"answer", "bogus"}), a \in Opt({""}), c \in Opt({""})}

\* Request bodies with little variety, for the specifications that explore
\* one part of the API in depth and only need the rest to populate the store:
\* one body the route accepts and one it rejects.
FewChatBodies == {[name |-> "A"], [shared |-> FALSE]}

FewMessageBodies ==
    {[type |-> "user", author |-> "ann", content |-> "hi"],
     [type |-> "bogus", author |-> "ann", content |-> "hi"]}

\* The requests to one route, from the values of its parameters and bodies;
\* {<<>>} stands for a parameter or body the route does not have.
Requests(route, ids, mids, bodies) ==
    {[route |-> route, id |-> i, mid |-> m, body |-> b] :
        i \in ids, m \in mids, b \in bodies}

ReadRequests ==
    Requests("GET /chats", {<<>>}, {<<>>}, {<<>>})
    \cup Requests("GET /chats/:id", IdParams, {<<>>}, {<<>>})
    \cup Requests("GET /chats/:id/messages", IdParams, {<<>>}, {<<>>})
    \cup Requests("GET /chats/:id/messages/:messageId", IdParams, IdParams, {<<>>})
    \cup Requests("GET /data", {<<>>}, {<<>>}, {<<>>})
    \cup Requests("GET /", {<<>>}, {<<>>}, {<<>>})

ChatWrites(bodies) ==
    Requests("POST /chats", {<<>>}, {<<>>}, bodies)
    \cup Requests("PUT /chats/:id", IdParams, {<<>>}, bodies)
    \cup Requests("DELETE /chats/:id", IdParams, {<<>>}, {<<>>})

MessageDeletes ==
    Requests("DELETE /chats/:id/messages/:messageId", IdParams, IdParams, {<<>>})

MessageWrites(postBodies, putBodies) ==
    Requests("POST /chats/:id/messages", IdParams, {<<>>}, postBodies)
    \cup Requests("PUT /chats/:id/messages/:messageId", IdParams, IdParams,
                  putBodies)
    \cup MessageDeletes

ResetRequests == Requests("POST /reset", {<<>>}, {<<>>}, {<<>>})

\* ----------------------------------------------------------------- startup

Init ==
    /\ \E file \in SeedFiles :
          /\ chats = loadDefaultData([chats |-> <<>>, messages |-> <<>>], file).chats
          /\ messages = loadDefaultData([chats |-> <<>>, messages |-> <<>>], file).messages
    /\ pc = "idle"
    /\ req = NoRequest
    /\ res = NoResponse
    /\ retired = NoRetired

\* A request arrives and is routed; r is the request.
Receive(r) ==
    /\ pc = "idle"
    /\ pc' = "handling"
    /\ req' = r
    /\ UNCHANGED <<chats, messages, res, retired>>

\* The response is sent and the server waits for the next request.
Send ==
    /\ pc = "responded"
    /\ pc' = "idle"
    /\ req' = NoRequest
    /\ res' = NoResponse
    /\ UNCHANGED <<chats, messages, retired>>

\* ------------------------------------------------------------- chat routes

\* app.get('/chats')
GetChats ==
    /\ Handling("GET /chats")
    /\ Respond(200, chats)
    /\ UNCHANGED <<chats, messages>>

\* app.get('/chats/:id')
GetChat ==
    /\ Handling("GET /chats/:id")
    /\ IF ~some(chats, LAMBDA c : c.id = parseInt(req.id))
       THEN Respond(404, Error("Chat not found"))
       ELSE Respond(200, chats[findIndex(chats, LAMBDA c : c.id = parseInt(req.id)) + 1])
    /\ UNCHANGED <<chats, messages>>

\* The index a new chat would get if it were derived from its id.
newChatIndexFromId == getNextId(chats) - 1

\* index: data.chats.length
newChatIndex == Len(chats)

\* app.post('/chats')
PostChat ==
    /\ Handling("POST /chats")
    /\ IF Not(req.body, "name")
       THEN /\ Respond(400, Error("Name is required"))
            /\ UNCHANGED <<chats, messages>>
       ELSE LET newChat == [id     |-> getNextId(chats),
                            index  |-> newChatIndex,
                            name   |-> req.body.name,
                            shared |-> IF Present(req.body, "shared")
                                       THEN req.body.shared ELSE FALSE]
            IN  /\ chats' = push(chats, newChat)
                /\ Respond(201, newChat)
                /\ UNCHANGED messages

\* app.put('/chats/:id')
PutChat ==
    /\ Handling("PUT /chats/:id")
    /\ LET chatIndex == findIndex(chats, LAMBDA c : c.id = parseInt(req.id))
           old       == chats[chatIndex + 1]
           updated   == [id     |-> old.id,
                         index  |-> IF Present(req.body, "index")
                                    THEN req.body.index ELSE old.index,
                         name   |-> IF Present(req.body, "name")
                                    THEN req.body.name ELSE old.name,
                         shared |-> IF Present(req.body, "shared")
                                    THEN req.body.shared ELSE old.shared]
       IN  IF chatIndex = 0 - 1
           THEN /\ Respond(404, Error("Chat not found"))
                /\ UNCHANGED <<chats, messages>>
           ELSE /\ chats' = [chats EXCEPT ![chatIndex + 1] = updated]
                /\ Respond(200, updated)
                /\ UNCHANGED messages

\* The delete that forgets the messages of the chat.
messagesOfOthersKeepAll(chatId) == messages

\* data.messages.filter(m => m.chat_id !== chatId)
messagesOfOthers(chatId) == filter(messages, LAMBDA m : m.chat_id # chatId)

\* app.delete('/chats/:id')
DeleteChat ==
    /\ Handling("DELETE /chats/:id")
    /\ LET chatId    == parseInt(req.id)
           chatIndex == findIndex(chats, LAMBDA c : c.id = chatId)
       IN  IF chatIndex = 0 - 1
           THEN /\ Respond(404, Error("Chat not found"))
                /\ UNCHANGED <<chats, messages>>
           ELSE /\ messages' = messagesOfOthers(chatId)
                /\ chats' = splice(chats, chatIndex)
                /\ Respond(204, NoContent)

\* ---------------------------------------------------------- message routes

\* A check that lets every chat id through.
chatExistsAlways(chatId) == TRUE

\* data.chats.some(c => c.id === chatId)
chatExists(chatId) == some(chats, LAMBDA c : c.id = chatId)

\* A lookup by message id alone, as a flat /messages/:id route would do.
findMessageById(messageId, chatId) ==
    findIndex(messages, LAMBDA m : m.id = messageId)

\* data.messages.findIndex(m => m.id === messageId && m.chat_id === chatId)
findMessage(messageId, chatId) ==
    findIndex(messages, LAMBDA m : m.id = messageId /\ m.chat_id = chatId)

\* app.get('/chats/:id/messages')
GetMessages ==
    /\ Handling("GET /chats/:id/messages")
    /\ LET chatId == parseInt(req.id)
       IN  IF ~chatExists(chatId)
           THEN Respond(404, Error("Chat not found"))
           ELSE Respond(200, filter(messages, LAMBDA m : m.chat_id = chatId))
    /\ UNCHANGED <<chats, messages>>

\* app.get('/chats/:id/messages/:messageId')
GetMessage ==
    /\ Handling("GET /chats/:id/messages/:messageId")
    /\ LET chatId       == parseInt(req.id)
           messageId    == parseInt(req.mid)
           messageIndex == findMessage(messageId, chatId)
       IN  IF ~chatExists(chatId)
           THEN Respond(404, Error("Chat not found"))
           ELSE IF messageIndex = 0 - 1
           THEN Respond(404, Error("Message not found"))
           ELSE Respond(200, messages[messageIndex + 1])
    /\ UNCHANGED <<chats, messages>>

\* app.post('/chats/:id/messages')
PostMessage ==
    /\ Handling("POST /chats/:id/messages")
    /\ LET chatId == parseInt(req.id)
           body   == req.body
       IN  IF ~chatExists(chatId)
           THEN /\ Respond(404, Error("Chat not found"))
                /\ UNCHANGED <<chats, messages>>
           ELSE IF Not(body, "type") \/ Not(body, "author") \/ Not(body, "content")
           THEN /\ Respond(400, Error("type, author, and content are required"))
                /\ UNCHANGED <<chats, messages>>
           ELSE IF ~includes(validTypes, body.type)
           THEN /\ Respond(400, Error("Type must be one of: user, thinking, answer"))
                /\ UNCHANGED <<chats, messages>>
           ELSE LET newMessage == [id      |-> getNextId(messages),
                                   chat_id |-> chatId,
                                   type    |-> body.type,
                                   author  |-> body.author,
                                   content |-> body.content]
                IN  /\ messages' = push(messages, newMessage)
                    /\ Respond(201, newMessage)
                    /\ UNCHANGED chats

\* app.put('/chats/:id/messages/:messageId')
PutMessage ==
    /\ Handling("PUT /chats/:id/messages/:messageId")
    /\ LET chatId       == parseInt(req.id)
           messageId    == parseInt(req.mid)
           messageIndex == findMessage(messageId, chatId)
           body         == req.body
           old          == messages[messageIndex + 1]
           updated      == [id      |-> old.id,
                            chat_id |-> old.chat_id,
                            type    |-> IF Present(body, "type")
                                        THEN body.type ELSE old.type,
                            author  |-> IF Present(body, "author")
                                        THEN body.author ELSE old.author,
                            content |-> IF Present(body, "content")
                                        THEN body.content ELSE old.content]
       IN  IF ~chatExists(chatId)
           THEN /\ Respond(404, Error("Chat not found"))
                /\ UNCHANGED <<chats, messages>>
           ELSE IF messageIndex = 0 - 1
           THEN /\ Respond(404, Error("Message not found"))
                /\ UNCHANGED <<chats, messages>>
           ELSE IF Present(body, "type") /\ ~includes(validTypes, body.type)
           THEN \* returns before author and content are looked at
                /\ Respond(400, Error("Type must be one of: user, thinking, answer"))
                /\ UNCHANGED <<chats, messages>>
           ELSE /\ messages' = [messages EXCEPT ![messageIndex + 1] = updated]
                /\ Respond(200, updated)
                /\ UNCHANGED chats

\* app.delete('/chats/:id/messages/:messageId')
DeleteMessage ==
    /\ Handling("DELETE /chats/:id/messages/:messageId")
    /\ LET chatId       == parseInt(req.id)
           messageId    == parseInt(req.mid)
           messageIndex == findMessage(messageId, chatId)
       IN  IF ~chatExists(chatId)
           THEN /\ Respond(404, Error("Chat not found"))
                /\ UNCHANGED <<chats, messages>>
           ELSE IF messageIndex = 0 - 1
           THEN /\ Respond(404, Error("Message not found"))
                /\ UNCHANGED <<chats, messages>>
           ELSE /\ messages' = splice(messages, messageIndex)
                /\ Respond(204, NoContent)
                /\ UNCHANGED chats

\* ---------------------------------------------------------- utility routes

\* app.get('/data')
GetData ==
    /\ Handling("GET /data")
    /\ Respond(200, Data)
    /\ UNCHANGED <<chats, messages>>

\* app.post('/reset'), with the seed file as it is found on disk.
Reset(file) ==
    /\ Handling("POST /reset")
    /\ chats' = loadDefaultData(Data, file).chats
    /\ messages' = loadDefaultData(Data, file).messages
    /\ Respond(200, [message |-> "Data reset to default",
                     data    |-> [chats |-> chats', messages |-> messages']])

\* app.get('/')
Root ==
    /\ Handling("GET /")
    /\ Respond(200, [message |-> "LiveCode Backend API"])
    /\ UNCHANGED <<chats, messages>>

\* ----------------------------------------------------------------- history

Ids(array) == {array[i].id : i \in 1..Len(array)}

\* The ids that a request removed from a collection join retired.
Retire ==
    retired' = [chats    |-> retired.chats \cup (Ids(chats) \ Ids(chats')),
                messages |-> retired.messages \cup (Ids(messages) \ Ids(messages'))]

Forget == retired' = NoRetired

\* ---------------------------------------------------------- specifications

\* A collection has room and ids to give for one more record.
Room(array, max) == Len(array) < max /\ getNextId(array) <= MaxId

\* The request would add a record to a collection that has no room: such
\* a request is kept out, which is what bounds the store.
Overflows(r) ==
    \/ /\ r.route = "POST /chats"
       /\ ~Not(r.body, "name")
       /\ ~Room(chats, MaxChats)
    \/ /\ r.route = "POST /chats/:id/messages"
       /\ chatExists(parseInt(r.id))
       /\ ~(Not(r.body, "type") \/ Not(r.body, "author") \/ Not(r.body, "content"))
       /\ ~Room(messages, MaxMsgs)

Arrives(r) == ~Overflows(r) /\ Receive(r)

IdsRequests ==
    ReadRequests \cup ChatWrites(FewChatBodies)
    \cup MessageWrites(FewMessageBodies, FewMessageBodies) \cup ResetRequests

ChatsRequests ==
    ChatWrites(ChatBodies)
    \cup Requests("POST /chats/:id/messages", {<<"1">>, <<"x">>}, {<<>>},
                  FewMessageBodies)
    \cup ResetRequests

MessagesRequests ==
    ChatWrites(FewChatBodies)
    \cup MessageWrites(PostMessageBodies, PutMessageBodies) \cup ResetRequests

\* Every route, few bodies, with the history of deleted ids recorded.
NextIds ==
    \/ pc = "idle" /\ \E r \in IdsRequests : Arrives(r)
    \/ GetChats /\ UNCHANGED retired
    \/ GetChat /\ UNCHANGED retired
    \/ PostChat /\ Retire
    \/ PutChat /\ Retire
    \/ DeleteChat /\ Retire
    \/ GetMessages /\ UNCHANGED retired
    \/ GetMessage /\ UNCHANGED retired
    \/ PostMessage /\ Retire
    \/ PutMessage /\ Retire
    \/ DeleteMessage /\ Retire
    \/ GetData /\ UNCHANGED retired
    \/ (\E file \in SeedFiles : Reset(file)) /\ Forget
    \/ Root /\ UNCHANGED retired
    \/ Send

SpecIds == Init /\ [][NextIds]_vars

\* The chat routes with every chat body, and the creation of messages in
\* the first chat with few bodies, so that a chat has messages; no history.
NextChats ==
    \/ pc = "idle" /\ \E r \in ChatsRequests : Arrives(r)
    \/ PostChat /\ UNCHANGED retired
    \/ PutChat /\ UNCHANGED retired
    \/ DeleteChat /\ UNCHANGED retired
    \/ PostMessage /\ UNCHANGED retired
    \/ (\E file \in SeedFiles : Reset(file)) /\ UNCHANGED retired
    \/ Send

SpecChats == Init /\ [][NextChats]_vars

\* Every message body, few chat bodies; the writing routes, no history.
NextMessages ==
    \/ pc = "idle" /\ \E r \in MessagesRequests : Arrives(r)
    \/ PostChat /\ UNCHANGED retired
    \/ PutChat /\ UNCHANGED retired
    \/ DeleteChat /\ UNCHANGED retired
    \/ PostMessage /\ UNCHANGED retired
    \/ PutMessage /\ UNCHANGED retired
    \/ DeleteMessage /\ UNCHANGED retired
    \/ (\E file \in SeedFiles : Reset(file)) /\ UNCHANGED retired
    \/ Send

SpecMessages == Init /\ [][NextMessages]_vars

\* The bounds hold.
TypeOK ==
    /\ Len(chats) <= MaxChats
    /\ Len(messages) <= MaxMsgs
    /\ \A i \in 1..Len(chats) : chats[i].id \in 1..MaxId
    /\ \A i \in 1..Len(messages) : messages[i].id \in 1..MaxId

\* ------------------------------------------------------------------ claims

\* seq without its k-th element (k counted from 1).
Without(seq, k) ==
    [i \in 1..(Len(seq) - 1) |-> IF i < k THEN seq[i] ELSE seq[i + 1]]

Last(seq) == seq[Len(seq)]

\* n is greater than every id in array, and one more than one of them
\* unless array is empty, when it is 1.
IsMaxPlusOne(n, array) ==
    /\ \A i \in 1..Len(array) : array[i].id < n
    /\ IF Len(array) = 0 THEN n = 1
       ELSE \E i \in 1..Len(array) : array[i].id = n - 1

\* The value a partial update leaves in field f of record old.
Patched(old, body, f) == IF f \in DOMAIN body THEN body[f] ELSE old[f]

\* f is missing from body or the empty string.
Lacks(body, f) == f \notin DOMAIN body \/ body[f] = ""

TypeSet == {"user", "thinking", "answer"}

\* This step is the handler of route answering the request at hand.
Served(route) == pc = "handling" /\ req.route = route /\ pc' = "responded"

\* The handler of route has just answered with status.
Answered(route, status) ==
    pc = "responded" /\ req.route = route /\ res.status = status

\* This step answers with status and changes neither collection.
Rejected(status) ==
    res'.status = status /\ chats' = chats /\ messages' = messages

HasChat(id) == \E k \in 1..Len(chats) : chats[k].id = id

HasMessage(id, chatId) ==
    \E i \in 1..Len(messages) : messages[i].id = id /\ messages[i].chat_id = chatId

\* C1 as stated: an id that belonged to a record since deleted is never
\* the id of a record created later, so (ids being unique) no record in the
\* store carries an id retired since the last reset.
C1_NeverReused ==
    /\ Ids(chats) \cap retired.chats = {}
    /\ Ids(messages) \cap retired.messages = {}

\* C1 amended: the id given to a new record is greater than every id then
\* present in its collection, so the id of a deleted record is assigned
\* again only once no record with that id or a greater one remains.
C1_ReusedOnlyAboveRemaining ==
    [][/\ (Served("POST /chats") /\ res'.status = 201) =>
            /\ Ids(chats') = Ids(chats) \cup {res'.body.id}
            /\ \A i \in 1..Len(chats) : chats[i].id < res'.body.id
       /\ (Served("POST /chats/:id/messages") /\ res'.status = 201) =>
            /\ Ids(messages') = Ids(messages) \cup {res'.body.id}
            /\ \A i \in 1..Len(messages) : messages[i].id < res'.body.id
      ]_vars

\* A chat was just created under the id of a deleted chat while an older
\* chat is still there.
C1_Witness ==
    /\ Answered("POST /chats", 201)
    /\ Len(chats) = 2
    /\ res.body.id \in retired.chats

\* C2: no two chats share an id and no two messages share an id, whatever
\* chats the messages belong to.
C2_UniqueIds ==
    /\ \A i, j \in 1..Len(chats) : i # j => chats[i].id # chats[j].id
    /\ \A i, j \in 1..Len(messages) : i # j => messages[i].id # messages[j].id

\* A message was just created next to a message of another chat.
C2_Witness ==
    /\ Answered("POST /chats/:id/messages", 201)
    /\ Len(messages) = 2
    /\ messages[1].chat_id # messages[2].chat_id

\* C3: DELETE /chats/:id on an existing chat answers 204, takes exactly
\* that chat out of the chat sequence and exactly the messages with its id
\* as chat_id out of the message sequence; the rest stays as it was, in
\* its order.
C3_CascadingDelete ==
    [][(Served("DELETE /chats/:id") /\ HasChat(parseInt(req.id))) =>
          /\ res'.status = 204
          /\ \E k \in 1..Len(chats) :
                /\ chats[k].id = parseInt(req.id)
                /\ chats' = Without(chats, k)
                /\ messages' = SelectSeq(messages, LAMBDA m : m.chat_id # chats[k].id)
      ]_vars

\* A chat was just deleted together with a message of its own, while
\* another chat and its message were kept.
C3_Witness ==
    /\ Answered("DELETE /chats/:id", 204)
    /\ retired.messages # {}
    /\ Len(chats) = 1 /\ Len(messages) = 1

\* C4: a request answered 400 or 404 changes neither collection, and the
\* requests the claim lists are answered so: a chat without a name, a
\* message for a chat that is not there, a message lacking type, author or
\* content or of an unknown type, an update or a delete of a chat or a
\* message that is not there, and an update of a message to an unknown
\* type, whatever else the body carries.
C4_RejectedLeavesStore ==
    [][/\ (pc = "handling" /\ res'.status \in {400, 404}) =>
            chats' = chats /\ messages' = messages
       /\ (Served("POST /chats") /\ Lacks(req.body, "name")) => Rejected(400)
       /\ (Served("POST /chats/:id/messages") /\ ~HasChat(parseInt(req.id))) =>
            Rejected(404)
       /\ (/\ Served("POST /chats/:id/messages")
           /\ HasChat(parseInt(req.id))
           /\ \/ Lacks(req.body, "type")
              \/ Lacks(req.body, "author")
              \/ Lacks(req.body, "content")
              \/ req.body.type \notin TypeSet) => Rejected(400)
       /\ (/\ Served("PUT /chats/:id") \/ Served("DELETE /chats/:id")
           /\ ~HasChat(parseInt(req.id))) => Rejected(404)
       /\ (/\ \/ Served("PUT /chats/:id/messages/:messageId")
              \/ Served("DELETE /chats/:id/messages/:messageId")
           /\ \/ ~HasChat(parseInt(req.id))
              \/ ~\E i \in 1..Len(messages) : messages[i].id = parseInt(req.mid))
            => Rejected(404)
       /\ (/\ Served("PUT /chats/:id/messages/:messageId")
           /\ HasChat(parseInt(req.id))
           /\ HasMessage(parseInt(req.mid), parseInt(req.id))
           /\ "type" \in DOMAIN req.body
           /\ req.body.type \notin TypeSet) => Rejected(400)
      ]_vars

\* An update of a message was just answered 400 for its type, and its body
\* also carried an author other than the one the message has.
C4_Witness ==
    /\ Answered("PUT /chats/:id/messages/:messageId", 400)
    /\ "author" \in DOMAIN req.body
    /\ \E i \in 1..Len(messages) :
          /\ messages[i].id = parseInt(req.mid)
          /\ messages[i].author # req.body.author

\* C5: a created record gets id 1 in an empty collection and otherwise the
\* largest id present plus 1, also when that is an id issued before.
C5_MaxPlusOne ==
    [][/\ (Served("POST /chats") /\ res'.status = 201) =>
            /\ res'.body = Last(chats')
            /\ IsMaxPlusOne(res'.body.id, chats)
       /\ (Served("POST /chats/:id/messages") /\ res'.status = 201) =>
            /\ res'.body = Last(messages')
            /\ IsMaxPlusOne(res'.body.id, messages)
      ]_vars

\* A message was just created under an id issued earlier, after the
\* message holding the largest id was deleted; a message with a smaller id
\* is still there.
C5_Witness ==
    /\ Answered("POST /chats/:id/messages", 201)
    /\ res.body.id \in retired.messages
    /\ Len(messages) = 2

\* C6: PUT /chats/:id on an existing chat overwrites the fields among name,
\* index and shared that the body carries, falsy values included, and
\* keeps the others; the id, the position, the other chats and the messages
\* stay.
C6_PartialChatUpdate ==
    [][(Served("PUT /chats/:id") /\ HasChat(parseInt(req.id))) =>
          \E k \in 1..Len(chats) :
              /\ chats[k].id = parseInt(req.id)
              /\ Len(chats') = Len(chats)
              /\ \A j \in 1..Len(chats) : j # k => chats'[j] = chats[j]
              /\ chats'[k].id = chats[k].id
              /\ chats'[k].name = Patched(chats[k], req.body, "name")
              /\ chats'[k].index = Patched(chats[k], req.body, "index")
              /\ chats'[k].shared = Patched(chats[k], req.body, "shared")
              /\ messages' = messages
      ]_vars

\* The second chat was just given index 0 and shared false by a body
\* without a name, and kept its name, next to a first chat and a message.
C6_Witness ==
    /\ Answered("PUT /chats/:id", 200)
    /\ DOMAIN req.body = {"index", "shared"}
    /\ req.body.index = 0 /\ req.body.shared = FALSE
    /\ Len(chats) = 2 /\ Len(messages) > 0
    /\ chats[2] = [id |-> 2, index |-> 0, name |-> "A", shared |-> FALSE]

\* C7: POST /reset answers 200 with the store as it is after the request;
\* the store is then the seed when the seed file loads, and what it was
\* before when the file is missing or malformed.
C7_Reset ==
    [][Served("POST /reset") =>
          /\ res'.status = 200
          /\ res'.body.data.chats = chats'
          /\ res'.body.data.messages = messages'
          /\ \/ chats' = defaultData.chats /\ messages' = defaultData.messages
             \/ chats' = chats /\ messages' = messages
          /\ \A file \in SeedFiles : Reset(file) =>
                IF file = "ok"
                THEN chats' = defaultData.chats /\ messages' = defaultData.messages
                ELSE chats' = chats /\ messages' = messages
      ]_vars

\* A reset was just answered with a store that is not the seed: the file
\* did not load and the records created before are still there.
C7_Witness ==
    /\ Answered("POST /reset", 200)
    /\ Len(chats) = 2 /\ Len(messages) = 2
    /\ res.body.data = Data

\* C8: POST /chats with a name appends one chat with the next id, the
\* number of chats before the request as index, the name given and shared
\* as given or false, and changes nothing else; from the empty store two
\* creations in a row get ids 1, 2 and index 0, 1.
C8_ChatCreation ==
    [][(Served("POST /chats") /\ ~Lacks(req.body, "name")) =>
          /\ res'.status = 201
          /\ chats' = Append(chats, res'.body)
          /\ IsMaxPlusOne(res'.body.id, chats)
          /\ res'.body.index = Len(chats)
          /\ res'.body.name = req.body.name
          /\ res'.body.shared =
               IF "shared" \in DOMAIN req.body THEN req.body.shared ELSE FALSE
          /\ messages' = messages
          /\ Len(chats) = 0 => res'.body.id = 1 /\ res'.body.index = 0
          /\ (Len(chats) = 1 /\ chats[1].id = 1) =>
               res'.body.id = 2 /\ res'.body.index = 1
      ]_vars

\* The second of two chats created on an empty store was just created.
C8_Witness ==
    /\ Answered("POST /chats", 201)
    /\ Len(messages) = 0
    /\ Len(chats) = 2
    /\ chats[1].id = 1 /\ chats[1].index = 0
    /\ chats[2].id = 2 /\ chats[2].index = 1

\* C9: PUT /chats/:id/messages/:messageId answers 404 unless a message
\* with that id and with :id as chat_id exists; a success overwrites the
\* fields among type, author and content that the body carries, with a
\* type of the three known ones only, and keeps the id, the chat_id, the
\* other messages and the chats.
C9_NestedMessageUpdate ==
    [][Served("PUT /chats/:id/messages/:messageId") =>
          /\ ~HasMessage(parseInt(req.mid), parseInt(req.id)) => Rejected(404)
          /\ res'.status \in {200, 400, 404}
          /\ res'.status # 200 => messages' = messages
          /\ res'.status = 200 =>
                \E i \in 1..Len(messages) :
                    /\ messages[i].id = parseInt(req.mid)
                    /\ messages[i].chat_id = parseInt(req.id)
                    /\ Len(messages') = Len(messages)
                    /\ \A j \in 1..Len(messages) : j # i => messages'[j] = messages[j]
                    /\ messages'[i].id = messages[i].id
                    /\ messages'[i].chat_id = messages[i].chat_id
                    /\ messages'[i].type = Patched(messages[i], req.body, "type")
                    /\ messages'[i].author = Patched(messages[i], req.body, "author")
                    /\ messages'[i].content = Patched(messages[i], req.body, "content")
                    /\ "type" \in DOMAIN req.body => req.body.type \in TypeSet
          /\ chats' = chats
      ]_vars

\* A message of the second chat was just given an empty author, and
\* nothing else, next to a message of the first chat.
C9_Witness ==
    /\ Answered("PUT /chats/:id/messages/:messageId", 200)
    /\ DOMAIN req.body = {"author"}
    /\ Len(messages) = 2
    /\ messages[1].chat_id = 1 /\ messages[1].author = "ann"
    /\ messages[2].chat_id = 2 /\ messages[2].author = ""
    /\ res.body = messages[2]

\* C10: every stored message's chat_id is the id of a stored chat.
C10_NoOrphans ==
    \A i \in 1..Len(messages) :
        \E k \in 1..Len(chats) : chats[k].id = messages[i].chat_id

\* A chat was just deleted and the store still holds messages, all of
\* them of the chat that is left.
C10_Witness ==
    /\ Answered("DELETE /chats/:id", 204)
    /\ Len(chats) = 1 /\ Len(messages) = 2

====
